---------------------------- MODULE Spec2Model ----------------------------
(***************************************************************************)
(* Rat Reviews publisher (src/rat.py): publish_review writes one review    *)
(* page, prefixed by a metadata comment block, under                       *)
(* Content/<type>/<year>/<MM>/, copies the site assets next to it and      *)
(* rebuilds Archive.html and Recent.html from a full scan of Content/.     *)
(*                                                                         *)
(* Text is modelled as a sequence of one-character strings, so that        *)
(* strip/split/splitlines/re.sub/strptime are computed character by        *)
(* character as Python computes them.                                      *)
(***************************************************************************)
EXTENDS Integers, Sequences, FiniteSets, TLC

VARIABLES
    store,     \* Content/: path of each *.html file |-> [text, readable]
    dirs,      \* directories created under Content/ by mkdir
    assets,    \* <<directory, asset name>> of every asset copy on disk
    archive,   \* body of Archive.html as last written
    recent,    \* entries of Recent.html as last written
    pages,     \* which of Archive.html / Recent.html exist on disk
    scanA,     \* order in which the last update_archive enumerated Content/
    last,      \* what the last handler invocation was given and did
    clicks,    \* number of clicks on PUBLISH so far
    published, \* number of those that ended in the "Published!" dialog
    fields,    \* metadata codec: the seven values handed to the f-string
    parsed     \* metadata codec: the dict read back from the block

vars == <<store, dirs, assets, archive, recent, pages, scanA, last, clicks, published,
          fields, parsed>>

-----------------------------------------------------------------------------
(* Characters and Python string primitives *)

Digits == {"0", "1", "2", "3", "4", "5", "6", "7", "8", "9"}

Letters == {"a", "b", "c", "d", "e", "h", "l", "m", "n", "o", "p", "r", "t", "x", "y",
            "A", "B", "C", "D", "E", "G", "I", "L", "M", "N", "P", "R", "S",
            "T", "U", "X", "Y", "Z"}

\* \w of the re module
WordChars == Letters \cup Digits \cup {"_"}

\* what str.strip() removes
Whitespace == {" ", "\n", "\t"}

\* the line boundary str.splitlines() cuts at
LineBreaks == {"\n"}

RECURSIVE LStrip(_)
LStrip(s) == IF s = <<>> \/ Head(s) \notin Whitespace THEN s ELSE LStrip(Tail(s))

RECURSIVE RStrip(_)
RStrip(s) ==
    IF s = <<>> \/ s[Len(s)] \notin Whitespace THEN s
    ELSE RStrip(SubSeq(s, 1, Len(s) - 1))

\* str.strip()
Strip(s) == RStrip(LStrip(s))

\* s.find(d) + 1: the first position at which d occurs in s, 0 when it does not
Find(s, d) ==
    LET hits == {i \in 1..(Len(s) - Len(d) + 1) : \A k \in 1..Len(d) : s[i + k - 1] = d[k]}
    IN  IF hits = {} THEN 0 ELSE CHOOSE i \in hits : \A j \in hits : i <= j

\* d in s
Contains(s, d) == Find(s, d) # 0

\* s.split(d)[0]
SplitFirst(s, d) ==
    LET i == Find(s, d) IN IF i = 0 THEN s ELSE SubSeq(s, 1, i - 1)

\* what follows the first occurrence of d in s (d occurs in s)
AfterFirst(s, d) == SubSeq(s, Find(s, d) + Len(d), Len(s))

\* s.split(d)[1] (d occurs in s)
SplitSecond(s, d) == SplitFirst(AfterFirst(s, d), d)

\* s.splitlines()
RECURSIVE SplitLines(_)
SplitLines(s) ==
    IF s = <<>> THEN <<>>
    ELSE LET brk == {i \in 1..Len(s) : s[i] \in LineBreaks}
         IN  IF brk = {} THEN <<s>>
             ELSE LET i == CHOOSE j \in brk : \A k \in brk : j <= k
                  IN  <<SubSeq(s, 1, i - 1)>> \o SplitLines(SubSeq(s, i + 1, Len(s)))

\* s.replace(" ", "")
RECURSIVE DropSpaces(_)
DropSpaces(s) ==
    IF s = <<>> THEN <<>>
    ELSE IF Head(s) = " " THEN DropSpaces(Tail(s))
    ELSE <<Head(s)>> \o DropSpaces(Tail(s))

\* re.sub(r'[^\w\-]', '_', s)
SubUnderscore(s) ==
    [i \in 1..Len(s) |-> IF s[i] \in WordChars \cup {"-"} THEN s[i] ELSE "_"]

\* re.sub(r'[^\w\-]', '', s)
RECURSIVE SubRemove(_)
SubRemove(s) ==
    IF s = <<>> THEN <<>>
    ELSE IF Head(s) \in WordChars \cup {"-"} THEN <<Head(s)>> \o SubRemove(Tail(s))
    ELSE SubRemove(Tail(s))

-----------------------------------------------------------------------------
(* Numbers and dates *)

DigitChar(n) ==
    CASE n = 0 -> "0" [] n = 1 -> "1" [] n = 2 -> "2" [] n = 3 -> "3" [] n = 4 -> "4"
      [] n = 5 -> "5" [] n = 6 -> "6" [] n = 7 -> "7" [] n = 8 -> "8" [] n = 9 -> "9"

DigitVal(c) == CHOOSE n \in 0..9 : DigitChar(n) = c

\* str(n) for n >= 0
RECURSIVE Str(_)
Str(n) == IF n < 10 THEN <<DigitChar(n)>> ELSE Str(n \div 10) \o <<DigitChar(n % 10)>>

\* f"{n:0{w}d}"
RECURSIVE ZeroPad(_, _)
ZeroPad(s, w) == IF Len(s) >= w THEN s ELSE ZeroPad(<<"0">> \o s, w)

\* int(s) for a string of digits
RECURSIVE Int10(_)
Int10(s) == IF s = <<>> THEN 0 ELSE 10 * Int10(SubSeq(s, 1, Len(s) - 1)) + DigitVal(s[Len(s)])

IsLeap(y) == (y % 4 = 0 /\ y % 100 # 0) \/ y % 400 = 0

DaysInMonth(y, m) ==
    IF m = 2 THEN (IF IsLeap(y) THEN 29 ELSE 28)
    ELSE IF m \in {4, 6, 9, 11} THEN 30 ELSE 31

\* the %m directive of _strptime: 1[0-2]|0[1-9]|[1-9]
MonthToken(t) ==
    \/ Len(t) = 1 /\ t[1] \in Digits \ {"0"}
    \/ Len(t) = 2 /\ t[1] = "1" /\ t[2] \in {"0", "1", "2"}
    \/ Len(t) = 2 /\ t[1] = "0" /\ t[2] \in Digits \ {"0"}

\* the %d directive of _strptime: 3[0-1]|[1-2]\d|0[1-9]|[1-9]| [1-9]
DayToken(t) ==
    \/ Len(t) = 1 /\ t[1] \in Digits \ {"0"}
    \/ Len(t) = 2 /\ t[1] = "3" /\ t[2] \in {"0", "1"}
    \/ Len(t) = 2 /\ t[1] \in {"1", "2"} /\ t[2] \in Digits
    \/ Len(t) = 2 /\ t[1] \in {"0", " "} /\ t[2] \in Digits \ {"0"}

NoDate == [ok |-> FALSE, y |-> 0, m |-> 0, d |-> 0]

\* datetime.datetime.strptime(s, "%Y-%m-%d"): ok = FALSE stands for ValueError
Strptime(s) ==
    LET fits == {ml \in {1, 2} : \E dl \in {1, 2} :
                    /\ Len(s) = 6 + ml + dl
                    /\ \A i \in 1..4 : s[i] \in Digits
                    /\ s[5] = "-"
                    /\ MonthToken(SubSeq(s, 6, 5 + ml))
                    /\ s[6 + ml] = "-"
                    /\ DayToken(SubSeq(s, 7 + ml, Len(s)))}
    IN  IF fits = {} THEN NoDate
        ELSE LET ml == CHOOSE x \in fits : TRUE
                 y  == Int10(SubSeq(s, 1, 4))
                 m  == Int10(SubSeq(s, 6, 5 + ml))
                 d  == Int10(LStrip(SubSeq(s, 7 + ml, Len(s))))
             IN  IF y >= 1 /\ d <= DaysInMonth(y, m)
                 THEN [ok |-> TRUE, y |-> y, m |-> m, d |-> d]
                 ELSE NoDate

\* str(date): date.isoformat()
IsoFormat(dt) ==
    ZeroPad(Str(dt.y), 4) \o <<"-">> \o ZeroPad(Str(dt.m), 2) \o <<"-">> \o ZeroPad(Str(dt.d), 2)

\* the sort key of a date
DateKey(dt) == dt.y * 10000 + dt.m * 100 + dt.d

-----------------------------------------------------------------------------
(* Metadata comment block: written by publish_review, read by both builders *)

OpenDelim  == <<"<", "!", "-", "-">>
CloseDelim == <<"-", "-", ">">>

K_TITLE  == <<"T", "I", "T", "L", "E">>
K_ARTIST == <<"A", "R", "T", "I", "S", "T">>
K_ALBUM  == <<"A", "L", "B", "U", "M">>
K_YEAR   == <<"Y", "E", "A", "R">>
K_TYPE   == <<"T", "Y", "P", "E">>
K_AUTHOR == <<"A", "U", "T", "H", "O", "R">>
K_DATE   == <<"D", "A", "T", "E">>

General == <<"G", "e", "n", "e", "r", "a", "l">>
Ape     == <<"A", "p", "e">>

MetaLine(key, value) == key \o <<":", " ">> \o value \o <<"\n">>

\* the f-string of publish_review; date is str(pub_date)
Metadata(title, artist, album, release_year, review_type, author, date) ==
    OpenDelim \o <<"\n">>
      \o MetaLine(K_TITLE, title) \o MetaLine(K_ARTIST, artist)
      \o MetaLine(K_ALBUM, album) \o MetaLine(K_YEAR, release_year)
      \o MetaLine(K_TYPE, review_type) \o MetaLine(K_AUTHOR, author)
      \o MetaLine(K_DATE, date)
      \o CloseDelim \o <<"\n">>

\* text.split("<!--")[1].split("-->")[0], reached only when "<!--" in text
MetaBlock(text) == SplitFirst(SplitSecond(text, OpenDelim), CloseDelim)

\* k of: k, v = line.split(":", 1)
LineKey(line) == Strip(SplitFirst(line, <<":">>))

\* v of: k, v = line.rsplit(":", 1)
LineValueLastColon(line) ==
    LET cs == {i \in 1..Len(line) : line[i] = ":"}
        i  == CHOOSE j \in cs : \A k \in cs : k <= j
    IN  Strip(SubSeq(line, i + 1, Len(line)))

\* v of: k, v = line.split(":", 1)
LineValue(line) == Strip(AfterFirst(line, <<":">>))

\* the meta dict built line by line; a later line with the same key wins
ParseMeta(meta_block) ==
    LET lines == SelectSeq(SplitLines(Strip(meta_block)), LAMBDA l : Contains(l, <<":">>))
        kv    == SubSeq([i \in 1..Len(lines) |-> <<LineKey(lines[i]), LineValue(lines[i])>>],
                        1, Len(lines))
    IN  [k \in {kv[i][1] : i \in 1..Len(kv)} |->
            LET at == {i \in 1..Len(kv) : kv[i][1] = k}
            IN  kv[CHOOSE i \in at : \A j \in at : j <= i][2]]

\* meta.get(key, default)
Get(meta, key, default) == IF key \in DOMAIN meta THEN meta[key] ELSE default

\* What both scan loops compute from the text of one file before they look
\* at the keys: whether "<!--" occurs, and the meta dict of the first block
ScanFile(text) ==
    IF ~Contains(text, OpenDelim) THEN [block |-> FALSE, meta |-> <<>>]
    ELSE [block |-> TRUE, meta |-> ParseMeta(MetaBlock(text))]

-----------------------------------------------------------------------------
(* Paths, the page template and the site assets *)

Html == <<".", "h", "t", "m", "l">>

RECURSIVE JoinPath(_)
JoinPath(p) == IF Len(p) = 1 THEN p[1] ELSE p[1] \o <<"/">> \o JoinPath(Tail(p))

\* path relative to SCRIPT_DIR, with forward slashes; p is relative to CONTENT_DIR
RelPath(p) == <<"C", "o", "n", "t", "e", "n", "t", "/">> \o JoinPath(p)

\* the page template with its substitutions; the markdown body is left out
generate_html(title, artist, album, release_year, review_type, pub_date, author) ==
    <<"<", "h", "1", ">">> \o title \o <<"<", "p", ">">> \o artist \o <<",">> \o album
      \o <<"(">> \o release_year \o <<")">> \o <<"-", " ">> \o author \o <<" ">> \o pub_date

MAX_RECENT == 13

ASSET_EXTENSIONS == {".css", ".ico", ".jpg", ".jpeg", ".png", ".gif", ".webp", ".svg"}

\* str.lower() on the suffixes that occur
Lower(suffix) == IF suffix = ".PNG" THEN ".png" ELSE suffix

\* the files SCRIPT_DIR.iterdir() yields
ScriptDirFiles ==
    { [name |-> "rat.css",   suffix |-> ".css", file |-> TRUE],
      [name |-> "tiles.PNG", suffix |-> ".PNG", file |-> TRUE],
      [name |-> "rat.py",    suffix |-> ".py",  file |-> TRUE] }

\* every order in which a finite set can be enumerated
Orders(S) ==
    {f \in [1..Cardinality(S) -> S] : \A i, j \in 1..Cardinality(S) : f[i] = f[j] => i = j}

\* copy_assets_to: items in iteration order; failing = names whose copy2 raises.
\* Returns the names copied, whether the exception left the function, and the
\* asset copies then on disk.
RECURSIVE CopyLoop(_, _, _, _, _)
CopyLoop(items, dest_dir, failing, disk, copied) ==
    IF items = <<>> THEN [copied |-> copied, raised |-> FALSE, disk |-> disk]
    ELSE LET item == Head(items) IN
         IF item.file /\ Lower(item.suffix) \in ASSET_EXTENSIONS
              /\ <<dest_dir, item.name>> \notin disk
         THEN IF item.name \in failing
              THEN [copied |-> copied, raised |-> TRUE, disk |-> disk]
              ELSE CopyLoop(Tail(items), dest_dir, failing,
                            disk \cup {<<dest_dir, item.name>>}, Append(copied, item.name))
         ELSE CopyLoop(Tail(items), dest_dir, failing, disk, copied)

copy_assets_to(items, dest_dir, failing, disk) ==
    CopyLoop(items, dest_dir, failing, disk, <<>>)

\* which copies the environment lets fail: none, or one of the assets
FailingSets == {{}, {"rat.css"}, {"tiles.PNG"}}

-----------------------------------------------------------------------------
(* The head of publish_review: form values, date, path, document text *)

Date(y, m, d) == [ok |-> TRUE, y |-> y, m |-> m, d |-> d]

\* the form: the six entries, the override checkbox and the date entry
NoSub == [title |-> <<>>, artist |-> <<>>, album |-> <<>>, year |-> <<>>, type |-> <<>>,
          author |-> <<>>, override |-> FALSE, date |-> <<>>]

\* x.get().strip() or default
OrDefault(s, default) == IF Strip(s) = <<>> THEN default ELSE Strip(s)

\* the seven values that go into the metadata block
FormFields(sub, pub_date) ==
    [title  |-> Strip(sub.title),
     artist |-> Strip(sub.artist),
     album  |-> Strip(sub.album),
     year   |-> Strip(sub.year),
     type   |-> OrDefault(sub.type, General),
     author |-> OrDefault(sub.author, Ape),
     date   |-> IsoFormat(pub_date)]

\* if not title or not album
Valid(sub) == Strip(sub.title) # <<>> /\ Strip(sub.album) # <<>>

\* the date resolved from the form; ok = FALSE when strptime raises ValueError
ResolveDate(sub, today) == IF sub.override THEN Strptime(Strip(sub.date)) ELSE today

\* str(pub_date.year)
YearStr(pub_date) == Str(pub_date.y)

\* f"{pub_date.month:02d}"
MonthStr(pub_date) == ZeroPad(Str(pub_date.m), 2)

\* out_dir relative to CONTENT_DIR
OutDir(review_type, pub_date) ==
    <<SubUnderscore(review_type), YearStr(pub_date), MonthStr(pub_date)>>

FileName(album) == SubRemove(DropSpaces(album)) \o Html

\* filepath relative to CONTENT_DIR
FilePath(review_type, pub_date, album) == Append(OutDir(review_type, pub_date), FileName(album))

\* metadata_comment + html_content for the seven values f
Document(f) ==
    Metadata(f.title, f.artist, f.album, f.year, f.type, f.author, f.date)
      \o generate_html(f.title, f.artist, f.album, f.year, f.type, f.date, f.author)

\* full_html
FullHtml(sub, pub_date) == Document(FormFields(sub, pub_date))

\* the store once the document is written at path
WriteFile(s, path, text) ==
    [p \in DOMAIN s \cup {path} |-> IF p = path THEN [text |-> text, readable |-> TRUE] ELSE s[p]]

-----------------------------------------------------------------------------
(* Inputs of the publishing runs *)

\* the days on which PUBLISH is clicked
Today == {Date(2023, 12, 5), Date(2024, 1, 5)}

Base == [title |-> <<"T">>, artist |-> <<"X">>, album |-> <<"L", " ", "1">>,
         year |-> <<"1", "9">>, type |-> <<>>, author |-> <<>>,
         override |-> FALSE, date |-> <<>>]

On(sub, raw) == [sub EXCEPT !.override = TRUE, !.date = raw]

Jan5 == IsoFormat(Date(2024, 1, 5))

\* forms that pass validation and date resolution
Accepted ==
    { Base,
      \* surrounding blanks, a type that needs sanitizing, same day as Base
      On([Base EXCEPT !.title = <<" ", "T", " ">>, !.type = <<"E", "/", "P">>,
                      !.author = <<"Z">>], Jan5),
      \* a second album in the directory of Base, same day
      On([Base EXCEPT !.album = <<"M">>], Jan5),
      \* the same album under another title and day: the file is overwritten
      On([Base EXCEPT !.title = <<"U">>], IsoFormat(Date(2024, 1, 20))),
      \* delimiter sequences inside a field
      On([Base EXCEPT !.title = <<"-", "-", ">">>, !.album = <<"C">>], Jan5),
      On([Base EXCEPT !.artist = <<"<", "!", "-", "-">>, !.album = <<"C">>], Jan5),
      \* a year below 1000
      On(Base, <<"0", "9", "9", "9", "-", "0", "1", "-", "0", "1">>),
      \* one-digit month and day
      On(Base, <<"2", "0", "2", "4", "-", "1", "-", "5">>),
      \* the date entry is not read while the checkbox is off
      [Base EXCEPT !.date = <<"x">>] }

\* forms that are turned down
Rejected ==
    { [Base EXCEPT !.title = <<" ">>],
      [Base EXCEPT !.album = <<>>],
      On(Base, <<"2", "0", "2", "4", "-", "1", "3", "-", "0", "1">>),
      On(Base, <<"2", "0", "2", "4", "-", "0", "2", "-", "3", "0">>),
      On(Base, <<"0", "0", "0", "0", "-", "0", "1", "-", "0", "1">>),
      On(Base, <<"n", "o", "t", "-", "a", "-", "d", "a", "t", "e">>),
      On(Base, <<>>) }

Submissions == Accepted \cup Rejected

-----------------------------------------------------------------------------
(* Contents of Content/ for the index builders run on their own *)

\* at most this many hand-made files lie in the store next to published ones
MaxForeign == 2

\* the k-th of a run of monthly reviews: 2023-01-05, 2023-02-05, ...
SpineDate(k) == Date(2023 + ((k - 1) \div 12), ((k - 1) % 12) + 1, 5)

\* as publish_review writes Base on that day
SpineFile(k) ==
    [path |-> FilePath(General, SpineDate(k), Strip(Base.album)),
     text |-> FullHtml(Base, SpineDate(k)),
     readable |-> TRUE, class |-> "document", date |-> SpineDate(k), album |-> TRUE]

SpineSizes == {0, 1, MAX_RECENT - 1, MAX_RECENT, MAX_RECENT + 1}

Published(sub, pub_date, readable) ==
    [path |-> FilePath(FormFields(sub, pub_date).type, pub_date, Strip(sub.album)),
     text |-> FullHtml(sub, pub_date),
     readable |-> readable, class |-> IF readable THEN "document" ELSE "unreadable",
     date |-> pub_date, album |-> TRUE]

Block(lines) == OpenDelim \o <<"\n">> \o lines \o CloseDelim \o <<"\n">>

\* files a person put or edited in Content/; class and date say what the file is
Catalog ==
    { \* no comment block at all
      [path |-> << <<"n">> \o Html >>,
       text |-> <<"<", "p", ">">> \o MetaLine(K_DATE, Jan5),
       readable |-> TRUE, class |-> "noblock", date |-> NoDate, album |-> FALSE],
      \* the first block has no DATE line, a later comment has one
      [path |-> << General, <<"d">> \o Html >>,
       text |-> Block(MetaLine(K_TITLE, <<"T">>) \o MetaLine(K_ALBUM, <<"A">>))
                  \o Block(MetaLine(K_DATE, Jan5)),
       readable |-> TRUE, class |-> "nodate", date |-> NoDate, album |-> TRUE],
      \* DATE: not-a-date
      [path |-> << General, <<"b">> \o Html >>,
       text |-> Block(MetaLine(K_ALBUM, <<"A">>)
                  \o MetaLine(K_DATE, <<"n", "o", "t", "-", "a", "-", "d", "a", "t", "e">>)),
       readable |-> TRUE, class |-> "baddate", date |-> NoDate, album |-> TRUE],
      \* a published review whose file cannot be read
      Published([Base EXCEPT !.album = <<"K">>], Date(2024, 1, 5), FALSE),
      \* a block with a DATE line and nothing else
      [path |-> << General, <<"o">> \o Html >>,
       text |-> Block(MetaLine(K_DATE, Jan5)),
       readable |-> TRUE, class |-> "document", date |-> Date(2024, 1, 5), album |-> FALSE],
      \* two published reviews of one day, the day of the 13th monthly review
      Published([Base EXCEPT !.album = <<"M">>], Date(2024, 1, 5), TRUE),
      Published([Base EXCEPT !.album = <<"N">>, !.type = <<"E", "/", "P">>],
                Date(2024, 1, 5), TRUE),
      \* a review older than every monthly one
      Published([Base EXCEPT !.album = <<"O">>], Date(2022, 11, 30), TRUE),
      \* a review later in the month of the first monthly one
      Published([Base EXCEPT !.album = <<"P">>], Date(2023, 1, 20), TRUE) }

Shelf == Catalog \cup {SpineFile(k) : k \in 1..(MAX_RECENT + 1)}

\* the store holding the given files
StoreOf(files) ==
    [p \in {r.path : r \in files} |->
        LET r == CHOOSE x \in files : x.path = p
        IN  [text |-> r.text, readable |-> r.readable]]

Stores ==
    {StoreOf({SpineFile(k) : k \in 1..n} \cup F) :
        n \in SpineSizes, F \in {G \in SUBSET Catalog : Cardinality(G) <= MaxForeign}}

-----------------------------------------------------------------------------
(* Enumeration of Content/ *)

\* the texts that occur in the runs, scanned once
KnownTexts ==
    {FullHtml(sub, ResolveDate(sub, t)) : sub \in Accepted, t \in Today}
      \cup {r.text : r \in Shelf} \cup {<<>>}

ScanMemo == [t \in KnownTexts |-> ScanFile(t)]

\* ScanFile(text), looked up for the known texts
Scanned(text) == IF text \in KnownTexts THEN ScanMemo[text] ELSE ScanFile(text)

\* stores of up to this many files are enumerated in every possible order
MaxPermFiles == 2

RECURSIVE Listing(_)
Listing(S) ==
    IF S = {} THEN <<>>
    ELSE LET x == CHOOSE y \in S : TRUE IN <<x>> \o Listing(S \ {x})

Reverse(q) == [i \in 1..Len(q) |-> q[Len(q) + 1 - i]]

\* CONTENT_DIR.rglob("*.html"): the files in an arbitrary order. Every order
\* is taken for a small store; a larger one is enumerated in one fixed order
\* or its reverse.
RglobOrders(S) ==
    IF Cardinality(S) <= MaxPermFiles THEN Orders(S)
    ELSE {Listing(S), Reverse(Listing(S))}

\* ints, greatest first: sorted(..., reverse=True)
RECURSIVE SortedDesc(_)
SortedDesc(S) ==
    IF S = {} THEN <<>>
    ELSE LET mx == CHOOSE x \in S : \A y \in S : y <= x
         IN  <<mx>> \o SortedDesc(S \ {mx})

\* one step of a sort that is not stable: an entry goes before the placed
\* entries of its own date
InsertDescBeforeTies(sorted, e) ==
    LET n == Cardinality({i \in 1..Len(sorted) : DateKey(sorted[i].date) > DateKey(e.date)})
    IN  SubSeq(sorted, 1, n) \o <<e>> \o SubSeq(sorted, n + 1, Len(sorted))

\* one step of entries.sort(key=lambda x: x["date"], reverse=True): the sort
\* is stable, so an entry goes behind every placed entry that is not older
InsertDesc(sorted, e) ==
    LET n == Cardinality({i \in 1..Len(sorted) : DateKey(sorted[i].date) >= DateKey(e.date)})
    IN  SubSeq(sorted, 1, n) \o <<e>> \o SubSeq(sorted, n + 1, Len(sorted))

RECURSIVE SortByDateDesc(_)
SortByDateDesc(es) ==
    IF es = <<>> THEN <<>>
    ELSE InsertDesc(SortByDateDesc(SubSeq(es, 1, Len(es) - 1)), es[Len(es)])

Skip == [keep |-> FALSE]

Kept(recs) == SelectSeq(recs, LAMBDA r : r.keep)

-----------------------------------------------------------------------------
(* update_archive *)

month_name ==
    <<"January", "February", "March", "April", "May", "June", "July",
      "August", "September", "October", "November", "December">>

\* entries.append({...}) once DATE has been parsed
ArchiveAppend(p, meta, date_obj) ==
    IF ~date_obj.ok THEN Skip
    ELSE [keep   |-> TRUE,
          path   |-> RelPath(p),
          type   |-> Get(meta, K_TYPE, General),
          artist |-> Get(meta, K_ARTIST, <<>>),
          album  |-> Get(meta, K_ALBUM, <<>>),
          year   |-> Get(meta, K_YEAR, <<>>),
          date   |-> date_obj]

\* the checks on the text that was read: a block, and a DATE key in it
ArchiveScan(p, scan) ==
    IF ~scan.block THEN Skip
    ELSE IF K_DATE \notin DOMAIN scan.meta THEN Skip
    ELSE ArchiveAppend(p, scan.meta, Strptime(scan.meta[K_DATE]))

\* one pass of the for loop of update_archive over html_file = p
ArchiveRecord(p, f) == IF ~f.readable THEN Skip ELSE ArchiveScan(p, Scanned(f.text))

\* entries as appended by the scan loop, in enumeration order
ArchiveEntries(s, order) ==
    Kept([i \in 1..Len(order) |-> ArchiveRecord(order[i], s[order[i]])])

ArchiveItem(e) ==
    [href |-> e.path, type |-> e.type, album |-> e.album, artist |-> e.artist, year |-> e.year]

\* sorted(grouped.keys(), reverse=True)
Years(sorted) == SortedDesc({sorted[i].date.y : i \in 1..Len(sorted)})

\* sorted(grouped[year].keys(), reverse=True)
Months(sorted, y) ==
    SortedDesc({sorted[i].date.m : i \in {j \in 1..Len(sorted) : sorted[j].date.y = y}})

\* grouped[year][month], rendered
Items(sorted, y, m) ==
    LET grp == SelectSeq(sorted, LAMBDA e : e.date.y = y /\ e.date.m = m)
    IN  [i \in 1..Len(grp) |-> ArchiveItem(grp[i])]

MonthLists(sorted, y, months) ==
    [j \in 1..Len(months) |->
        [h3 |-> month_name[months[j]], items |-> Items(sorted, y, months[j])]]

YearSections(sorted, years) ==
    [i \in 1..Len(years) |->
        [h2     |-> Str(years[i]),
         months |-> MonthLists(sorted, years[i], Months(sorted, years[i]))]]

Sections(sorted) == YearSections(sorted, Years(sorted))

\* archive_body: one <h2> section per year, one <h3> list per month
ArchiveBody(entries) == Sections(SortByDateDesc(entries))

-----------------------------------------------------------------------------
(* update_recent *)

\* the entry appended whether or not strptime raised
RecentAppendAnyDate(p, meta, date_obj) ==
    [keep       |-> TRUE,
     href       |-> <<"/">> \o RelPath(p),
     type       |-> Get(meta, K_TYPE, General),
     date       |-> date_obj,
     date_str   |-> Str(date_obj.d) \o <<".">> \o Str(date_obj.m) \o <<".">> \o Str(date_obj.y),
     author     |-> Get(meta, K_AUTHOR, <<>>),
     bold       |-> Get(meta, K_ALBUM, <<>>) \o <<" ", "-", " ">>
                      \o Get(meta, K_ARTIST, <<>>) \o <<" ", "(">>
                      \o Get(meta, K_YEAR, <<>>) \o <<")">>,
     link_title |-> Get(meta, K_TITLE, <<>>)]

\* entries.append({...}) once DATE has been parsed
RecentAppend(p, meta, date_obj) ==
    IF ~date_obj.ok THEN Skip
    ELSE [keep       |-> TRUE,
          href       |-> <<"/">> \o RelPath(p),
          type       |-> Get(meta, K_TYPE, General),
          date       |-> date_obj,
          date_str   |-> Str(date_obj.d) \o <<".">> \o Str(date_obj.m)
                           \o <<".">> \o Str(date_obj.y),
          author     |-> Get(meta, K_AUTHOR, <<>>),
          bold       |-> Get(meta, K_ALBUM, <<>>) \o <<" ", "-", " ">>
                           \o Get(meta, K_ARTIST, <<>>) \o <<" ", "(">>
                           \o Get(meta, K_YEAR, <<>>) \o <<")">>,
          link_title |-> Get(meta, K_TITLE, <<>>)]

\* the checks on the text that was read: a block, and DATE and ALBUM keys in it
RecentScan(p, scan) ==
    IF ~scan.block THEN Skip
    ELSE IF K_DATE \notin DOMAIN scan.meta \/ K_ALBUM \notin DOMAIN scan.meta THEN Skip
    ELSE RecentAppend(p, scan.meta, Strptime(scan.meta[K_DATE]))

\* one pass of the for loop of update_recent over html_file = p
RecentRecord(p, f) == IF ~f.readable THEN Skip ELSE RecentScan(p, Scanned(f.text))

RecentEntries(s, order) ==
    Kept([i \in 1..Len(order) |-> RecentRecord(order[i], s[order[i]])])

\* entries[:MAX_RECENT + 1]
TruncateOneMore(es) ==
    SubSeq(es, 1, IF Len(es) < MAX_RECENT + 1 THEN Len(es) ELSE MAX_RECENT + 1)

\* entries[:MAX_RECENT]
Truncate(es) == SubSeq(es, 1, IF Len(es) < MAX_RECENT THEN Len(es) ELSE MAX_RECENT)

render_entry(e) ==
    [href |-> e.href, type |-> e.type, date_str |-> e.date_str, author |-> e.author,
     bold |-> e.bold, link_title |-> e.link_title]

\* entries_html: the rendered blocks, newest first
RecentFeed(entries) ==
    LET kept == Truncate(SortByDateDesc(entries))
    IN  [i \in 1..Len(kept) |-> render_entry(kept[i])]

-----------------------------------------------------------------------------
(* The handlers *)

\* dates of the records a scan produced for one file
Hits(entries, href) ==
    LET at == SelectSeq(entries, LAMBDA e : e.path = href)
    IN  [i \in 1..Len(at) |-> at[i].date]

Idle == [op |-> "none", dialog |-> "none", wrote |-> {}, sub |-> NoSub,
         out_dir |-> <<>>, filepath |-> <<>>, pub_date |-> NoDate,
         raised |-> "none", copied |-> {}, hitsA |-> <<>>, hitsR |-> <<>>]

Range(q) == {q[i] : i \in 1..Len(q)}

\* a run is followed for this many clicks on PUBLISH
MaxClicks == 2

\* One click on PUBLISH with the form holding sub, on the day today. The
\* environment decides whether open()/write() and each copy2() succeed and in
\* which order iterdir() and rglob() enumerate.
publish_review(sub, today) ==
    LET began == [Idle EXCEPT !.op = "publish_review", !.sub = sub]
        \* update_archive(), update_recent(...) and the showinfo dialog
        Index(resolved, made, filepath, written, oa, ea, er, cp) ==
            /\ store' = written
            /\ assets' = cp.disk
            /\ archive' = ArchiveBody(ea)
            /\ recent' = RecentFeed(er)
            /\ pages' = {"Archive.html", "Recent.html"}
            /\ scanA' = oa
            /\ published' = published + 1
            /\ last' = [resolved EXCEPT
                          !.dialog = "Published!",
                          !.wrote  = made \cup {"document", "Archive.html", "Recent.html"}
                                       \cup (IF cp.copied = <<>> THEN {} ELSE {"asset"}),
                          !.copied = Range(cp.copied),
                          !.hitsA  = Hits(ea, RelPath(filepath)),
                          !.hitsR  = Hits([i \in 1..Len(er) |->
                                             [path |-> Tail(er[i].href), date |-> er[i].date]],
                                          RelPath(filepath))]
        \* copy2() raised inside copy_assets_to: the handler ends there
        Abort(resolved, made, written, cp) ==
            /\ cp.raised
            /\ store' = written
            /\ assets' = cp.disk
            /\ last' = [resolved EXCEPT
                          !.raised = "copy",
                          !.wrote  = made \cup {"document"}
                                       \cup (IF cp.copied = <<>> THEN {} ELSE {"asset"}),
                          !.copied = Range(cp.copied)]
            /\ UNCHANGED <<archive, recent, pages, scanA, published>>
        \* from open(filepath, "w") on
        Save(resolved, made, out_dir, filepath, written) ==
            \/ \* open() raises: nothing is written
               /\ last' = [resolved EXCEPT !.raised = "open", !.wrote = made]
               /\ UNCHANGED <<store, assets, archive, recent, pages, scanA, published>>
            \/ \* write() raises after open() truncated the file
               /\ store' = WriteFile(store, filepath, <<>>)
               /\ last' = [resolved EXCEPT !.raised = "write", !.wrote = made \cup {"document"}]
               /\ UNCHANGED <<assets, archive, recent, pages, scanA, published>>
            \/ \E items \in Orders(ScriptDirFiles), failing \in FailingSets :
                  Abort(resolved, made, written, copy_assets_to(items, out_dir, failing, assets))
            \/ \* every step succeeds; with no copy2() raising, the order of
               \* iterdir() changes nothing
               \E oa \in RglobOrders(DOMAIN written), orr \in RglobOrders(DOMAIN written) :
                  Index(resolved, made, filepath, written, oa,
                        ArchiveEntries(written, oa), RecentEntries(written, orr),
                        copy_assets_to(Listing(ScriptDirFiles), out_dir, {}, assets))
        \* out_dir.mkdir(parents=True, exist_ok=True) and what follows
        Output(pub_date, out_dir, filepath, full_html) ==
            /\ dirs' = dirs \cup {out_dir}
            /\ UNCHANGED <<fields, parsed>>
            /\ Save([began EXCEPT !.out_dir = out_dir, !.filepath = filepath,
                                  !.pub_date = pub_date],
                    IF out_dir \in dirs THEN {} ELSE {"dir"},
                    out_dir, filepath, WriteFile(store, filepath, full_html))
        Accept(pub_date, f) ==
            Output(pub_date, OutDir(f.type, pub_date), FilePath(f.type, pub_date, f.album),
                   Document(f))
        Resolve(pub_date) ==
            IF ~pub_date.ok THEN
                /\ last' = [began EXCEPT !.dialog = "Date Error"]
                /\ UNCHANGED <<store, dirs, assets, archive, recent, pages, scanA, published,
                            fields, parsed>>
            ELSE Accept(pub_date, FormFields(sub, pub_date))
    IN
    /\ clicks < MaxClicks
    /\ clicks' = clicks + 1
    /\ IF ~Valid(sub) THEN
           /\ last' = [began EXCEPT !.dialog = "Error"]
           /\ UNCHANGED <<store, dirs, assets, archive, recent, pages, scanA, published,
                            fields, parsed>>
       ELSE Resolve(ResolveDate(sub, today))

\* update_archive() on its own
update_archive ==
    \E oa \in RglobOrders(DOMAIN store) :
        /\ archive' = ArchiveBody(ArchiveEntries(store, oa))
        /\ pages' = pages \cup {"Archive.html"}
        /\ scanA' = oa
        /\ last' = [Idle EXCEPT !.op = "update_archive", !.wrote = {"Archive.html"}]
        /\ UNCHANGED <<store, dirs, assets, recent, clicks, published, fields, parsed>>

\* update_recent(...) on its own; its eight parameters are not read
update_recent ==
    \E orr \in RglobOrders(DOMAIN store) :
        /\ recent' = RecentFeed(RecentEntries(store, orr))
        /\ pages' = pages \cup {"Recent.html"}
        /\ last' = [Idle EXCEPT !.op = "update_recent", !.wrote = {"Recent.html"}]
        /\ UNCHANGED <<store, dirs, assets, archive, scanA, clicks, published, fields, parsed>>

-----------------------------------------------------------------------------
(* Specifications *)

NoFields == [title |-> <<>>, artist |-> <<>>, album |-> <<>>, year |-> <<>>, type |-> <<>>,
             author |-> <<>>, date |-> <<>>]

NoMeta == [done |-> FALSE, meta |-> <<>>]

\* nothing published yet, no index page written yet
Fresh ==
    /\ dirs = {}
    /\ assets = {}
    /\ archive = <<>>
    /\ recent = <<>>
    /\ pages = {}
    /\ scanA = <<>>
    /\ last = Idle
    /\ clicks = 0
    /\ published = 0
    /\ parsed = NoMeta

Init == store = <<>> /\ fields = NoFields /\ Fresh

\* datetime.date.today() is read only while the checkbox is off
Reads(sub) == IF sub.override THEN {NoDate} ELSE Today

Next == \E sub \in Submissions : \E today \in Reads(sub) : publish_review(sub, today)

\* publishing runs from an empty Content/
Spec == Init /\ [][Next]_vars

InitStore == store \in Stores /\ fields = NoFields /\ Fresh

NextStore == update_archive \/ update_recent

\* the index builders over a store that holds published and hand-made files
SpecStore == InitStore /\ [][NextStore]_vars

-----------------------------------------------------------------------------
(* The metadata block on its own: written as publish_review writes it, read *)
(* back as the scan loops read it                                           *)

\* a value typed into one entry is at most this long
MaxLen == 3

CodecChars == {"a", " ", ":", "-", ">", "\n"}

\* the texts of at most n characters
Texts(n) == UNION {[1..k -> CodecChars] : k \in 0..n}

\* longer values: the opening delimiter, and a second line that reads as a key
LongValues == {OpenDelim, <<"a", "\n", "D", "A", "T", "E", ":", " ", "b">>}

Entries == {"title", "artist", "album", "year", "type", "author"}

\* forms in which one entry holds a typed value
CodecForms == {[Base EXCEPT ![k] = v] : k \in Entries, v \in Texts(MaxLen) \cup LongValues}

\* the values publish_review hands to the f-string for the forms it accepts
CodecInputs == {FormFields(sub, Date(2024, 1, 5)) : sub \in {x \in CodecForms : Valid(x)}}

InitCodec == store = <<>> /\ fields \in CodecInputs /\ Fresh

\* full_html for fields, then the parse of update_archive and update_recent
RoundTrip ==
    /\ ~parsed.done
    /\ parsed' = [done |-> TRUE, meta |-> ScanFile(Document(fields)).meta]
    /\ UNCHANGED <<store, dirs, assets, archive, recent, pages, scanA, last, clicks,
                   published, fields>>

SpecCodec == InitCodec /\ [][RoundTrip]_vars

-----------------------------------------------------------------------------
(* Properties of the publishing runs (Spec) *)

\* where the items of an archive body sit: <<year section, month list, item>>
Places(body) ==
    UNION {UNION {{<<i, j, k>> : k \in 1..Len(body[i].months[j].items)} :
                      j \in 1..Len(body[i].months)} :
               i \in 1..Len(body)}

\* the places at which an archive body links to href
Listed(body, href) ==
    {pl \in Places(body) : body[pl[1]].months[pl[2]].items[pl[3]].href = href}

\* C1: after publishes that all ended in "Published!", starting from an empty
\* store, Archive.html lists every document of the store exactly once.
C1_ArchiveListsEveryDocument ==
    (clicks > 0 /\ published = clicks) =>
        \A p \in DOMAIN store : Cardinality(Listed(archive, RelPath(p))) = 1

\* C3: when a publish has run to its end, the scan of update_archive and the
\* scan of update_recent that followed the write each produced exactly one
\* record for the document just written, and it carries the publish date.
C3_ScanFindsPublished ==
    last.dialog = "Published!" =>
        /\ last.hitsA = <<last.pub_date>>
        /\ last.hitsR = <<last.pub_date>>

\* a date written as four digits, two digits, two digits, that exists
StrictDate(s) ==
    /\ Len(s) = 10
    /\ \A i \in {1, 2, 3, 4, 6, 7, 9, 10} : s[i] \in Digits
    /\ s[5] = "-" /\ s[8] = "-"
    /\ Int10(SubSeq(s, 1, 4)) >= 1
    /\ Int10(SubSeq(s, 6, 7)) \in 1..12
    /\ Int10(SubSeq(s, 9, 10)) \in 1..DaysInMonth(Int10(SubSeq(s, 1, 4)), Int10(SubSeq(s, 6, 7)))

\* a form the publish must turn down
Invalid(sub) ==
    \/ Strip(sub.title) = <<>>
    \/ Strip(sub.album) = <<>>
    \/ sub.override /\ ~StrictDate(Strip(sub.date))

\* C4: a click on PUBLISH with an empty title or album, or with an override
\* date that is not a valid YYYY-MM-DD date, ends in an error dialog and
\* changes no directory, document, asset or index page.
C4_InvalidLeavesNoTrace ==
    [][(clicks' # clicks /\ Invalid(last'.sub)) =>
          /\ last'.dialog \in {"Error", "Date Error"}
          /\ UNCHANGED <<store, dirs, assets, archive, recent, pages>>]_vars

\* C5: a publish in which a copy2() of one asset failed after the document
\* was written still rebuilds both index pages and ends in "Published!".
C5_CopyFailureNotFatal ==
    last.raised = "copy" =>
        /\ last.dialog = "Published!"
        /\ {"Archive.html", "Recent.html"} \subseteq last.wrote

\* C10: the output directory of an accepted publish is <type>/<year>/<month>
\* under Content/, the type made of word characters, hyphens and underscores,
\* the year of exactly four digits, the month of exactly two digits.
C10_OutDirShape ==
    last.out_dir # <<>> =>
        /\ Len(last.out_dir) = 3
        /\ \A i \in 1..Len(last.out_dir[1]) : last.out_dir[1][i] \in WordChars \cup {"-"}
        /\ Len(last.out_dir[2]) = 4
        /\ \A i \in 1..Len(last.out_dir[2]) : last.out_dir[2][i] \in Digits
        /\ Len(last.out_dir[3]) = 2
        /\ \A i \in 1..Len(last.out_dir[3]) : last.out_dir[3][i] \in Digits

-----------------------------------------------------------------------------
(* Properties of the index builders (SpecStore) *)

\* what the file at p was made as
Origin(p) == CHOOSE r \in Shelf : r.path = p

\* the readable files whose first block carries a DATE that parses
Dated == {p \in DOMAIN store : Origin(p).class = "document"}

\* those of them whose block carries an ALBUM key as well
DatedWithAlbum == {p \in Dated : Origin(p).album}

\* the files Recent.html links to
FeedPaths ==
    {p \in DOMAIN store : \E i \in 1..Len(recent) : recent[i].href = <<"/">> \o RelPath(p)}

\* the feed holds the min(13, n) newest of the n files in D, each once
NewestOf(D) ==
    /\ Len(recent) <= 13
    /\ Len(recent) = (IF Cardinality(D) < 13 THEN Cardinality(D) ELSE 13)
    /\ Cardinality(FeedPaths) = Len(recent)
    /\ FeedPaths \subseteq D
    /\ \A p \in D \ FeedPaths : \A q \in FeedPaths :
          DateKey(Origin(p).date) <= DateKey(Origin(q).date)

\* C2 as stated: once Recent.html is built, the feed holds at most 13 entries,
\* and they are the min(13, n) newest of the n files whose block carries a
\* DATE that parses.
C2_RecentNewestOfDated == "Recent.html" \in pages => NewestOf(Dated)

\* C2, amended: once Recent.html is built, the feed holds at most 13 entries,
\* and they are the min(13, n) newest of the n readable files whose block
\* carries a DATE that parses and an ALBUM key.
C2_RecentNewestOfDatedWithAlbum == "Recent.html" \in pages => NewestOf(DatedWithAlbum)

\* more than 13 files qualify, one file has a DATE and no ALBUM, the feed is full
C2_Witness ==
    /\ "Recent.html" \in pages
    /\ Cardinality(DatedWithAlbum) > 13
    /\ Dated # DatedWithAlbum
    /\ Len(recent) = 13

\* C6: a rebuild of Archive.html or of Recent.html over a store that has not
\* changed since the page was last built writes the page it wrote before.
C6_RebuildIdempotent ==
    [][/\ ("Archive.html" \in pages /\ last'.op = "update_archive" /\ store' = store)
            => archive' = archive
       /\ ("Recent.html" \in pages /\ last'.op = "update_recent" /\ store' = store)
            => recent' = recent]_vars

Unfit == {"noblock", "nodate", "baddate", "unreadable"}

\* C7: each index builder, run over a store that holds files with no block,
\* with no DATE in the block, with a DATE that does not parse, or that cannot
\* be read, writes its page, and neither page has an entry for such a file.
C7_UnfitFilesLeftOut ==
    /\ last.op = "update_archive" => "Archive.html" \in pages
    /\ last.op = "update_recent" => "Recent.html" \in pages
    /\ \A p \in DOMAIN store :
          Origin(p).class \in Unfit => Listed(archive, RelPath(p)) = {} /\ p \notin FeedPaths

\* both pages are built and list documents, over a store with two unfit files
C7_Witness ==
    /\ pages = {"Archive.html", "Recent.html"}
    /\ archive # <<>> /\ recent # <<>>
    /\ Cardinality({p \in DOMAIN store : Origin(p).class \in Unfit}) >= 2

\* the publish date of the document an archive item links to
ItemDate(it) == DateKey(Origin(CHOOSE p \in DOMAIN store : RelPath(p) = it.href).date)

\* where the last scan of update_archive met the file an item links to
ScanPos(it) == CHOOSE i \in 1..Len(scanA) : RelPath(scanA[i]) = it.href

MonthNo(name) == CHOOSE k \in 1..12 : month_name[k] = name

\* items in descending date order, equal dates in scan order
InOrder(items) ==
    \A a, b \in 1..Len(items) :
        a < b => \/ ItemDate(items[a]) > ItemDate(items[b])
                 \/ ItemDate(items[a]) = ItemDate(items[b]) /\ ScanPos(items[a]) < ScanPos(items[b])

\* C9: in Archive.html the year sections descend, the month lists of a year
\* descend, the entries of a month descend by date, and entries of one date
\* stand in the order in which the scan met them.
C9_ArchiveOrder ==
    "Archive.html" \in pages =>
        /\ \A i, j \in 1..Len(archive) :
              i < j => Int10(archive[i].h2) > Int10(archive[j].h2)
        /\ \A i \in 1..Len(archive) :
              /\ \A j, k \in 1..Len(archive[i].months) :
                    j < k => MonthNo(archive[i].months[j].h3) > MonthNo(archive[i].months[k].h3)
              /\ \A j \in 1..Len(archive[i].months) : InOrder(archive[i].months[j].items)

\* two years, a year of two months, a month with two entries of one date and
\* a month with two entries of different dates
C9_Witness ==
    /\ "Archive.html" \in pages
    /\ Len(archive) >= 2
    /\ \E i \in 1..Len(archive) : Len(archive[i].months) >= 2
    /\ \E pl \in Places(archive), pm \in Places(archive) :
          /\ pl[1] = pm[1] /\ pl[2] = pm[2] /\ pl[3] < pm[3]
          /\ ItemDate(archive[pl[1]].months[pl[2]].items[pl[3]])
               = ItemDate(archive[pm[1]].months[pm[2]].items[pm[3]])
    /\ \E pl \in Places(archive), pm \in Places(archive) :
          /\ pl[1] = pm[1] /\ pl[2] = pm[2] /\ pl[3] < pm[3]
          /\ ItemDate(archive[pl[1]].months[pl[2]].items[pl[3]])
               > ItemDate(archive[pm[1]].months[pm[2]].items[pm[3]])

-----------------------------------------------------------------------------
(* Properties of the metadata block (SpecCodec) *)

\* the dict the seven values should come back as
Seven(f) ==
    (K_TITLE :> f.title) @@ (K_ARTIST :> f.artist) @@ (K_ALBUM :> f.album)
      @@ (K_YEAR :> f.year) @@ (K_TYPE :> f.type) @@ (K_AUTHOR :> f.author)
      @@ (K_DATE :> f.date)

Values(f) == {f.title, f.artist, f.album, f.year, f.type, f.author, f.date}

NoDelimiter(f) ==
    \A v \in Values(f) : ~Contains(v, OpenDelim) /\ ~Contains(v, CloseDelim)

OneLine(f) == \A v \in Values(f) : \A i \in 1..Len(v) : v[i] \notin LineBreaks

\* C8 as stated: for values that hold neither delimiter, the block read back
\* gives the seven fields with the values written.
C8_RoundTrip == (parsed.done /\ NoDelimiter(fields)) => parsed.meta = Seven(fields)

\* C8, amended: for values that hold neither delimiter nor a line break, the
\* block read back gives the seven fields with the values written.
C8_RoundTripOneLine ==
    (parsed.done /\ NoDelimiter(fields) /\ OneLine(fields)) => parsed.meta = Seven(fields)

\* a title with a colon and a hyphen in it has come back unchanged
C8_Witness ==
    /\ parsed.done
    /\ NoDelimiter(fields) /\ OneLine(fields)
    /\ Contains(fields.title, <<":">>) /\ Contains(fields.title, <<"-">>)
    /\ parsed.meta = Seven(fields)

-----------------------------------------------------------------------------
(* Property of the resolved file path (Spec) *)

\* the title with blanks and every character outside \w and "-" removed, plus ".html"
TitleFileName(sub) == SubRemove(DropSpaces(Strip(sub.title))) \o Html

\* C11: the file an accepted publish resolves to lies in the output directory
\* and is named after the title, so the path depends on type, publish date
\* and title only, whatever the album is.
C11_PathFromTitle ==
    last.filepath # <<>> => last.filepath = Append(last.out_dir, TitleFileName(last.sub))

=============================================================================
